---- MODULE Spec2Model ----
(***************************************************************************)
(* Model of src/app.py: the Flask handlers generate_content and            *)
(* check_reusability and the text post-processing they apply to the        *)
(* answers of the generative model.                                        *)
(*                                                                         *)
(* A Python str is modelled as a sequence of one-character strings, so     *)
(* that slicing, splitting, regular-expression search and case conversion  *)
(* are computed character by character as Python computes them.            *)
(***************************************************************************)
EXTENDS Integers, Sequences, FiniteSets, TLC

(***************************************************************************)
(* Characters                                                              *)
(***************************************************************************)
LowerLetters ==
  <<"a","b","c","d","e","f","g","h","i","j","k","l","m",
    "n","o","p","q","r","s","t","u","v","w","x","y","z">>

UpperLetters ==
  <<"A","B","C","D","E","F","G","H","I","J","K","L","M",
    "N","O","P","Q","R","S","T","U","V","W","X","Y","Z">>

Digits == {"0","1","2","3","4","5","6","7","8","9"}

IsLowerCh(c) == \E i \in 1..26 : LowerLetters[i] = c

IsUpperCh(c) == \E i \in 1..26 : UpperLetters[i] = c

\* str.isalpha for one ASCII character; these are also the cased characters
IsLetter(c) == IsLowerCh(c) \/ IsUpperCh(c)

\* str.lower for one character
LowerCh(c) ==
  IF IsUpperCh(c) THEN LowerLetters[CHOOSE i \in 1..26 : UpperLetters[i] = c] ELSE c

\* str.upper for one character
UpperCh(c) ==
  IF IsLowerCh(c) THEN UpperLetters[CHOOSE i \in 1..26 : LowerLetters[i] = c] ELSE c

\* the class \w of Python's re
IsWordCh(c) == IsLetter(c) \/ c \in Digits \/ c = "_"

\* the class \s of Python's re, and the characters str.strip removes
IsSpaceCh(c) == c \in {" ", "\n", "\t", "\r"}

(***************************************************************************)
(* str operations                                                          *)
(***************************************************************************)
\* str.lower
Lower(text) == [i \in 1..Len(text) |-> LowerCh(text[i])]

\* text[:n]
Take(text, n) == SubSeq(text, 1, IF Len(text) < n THEN Len(text) ELSE n)

\* text[n:] with n counted from 1: the characters from position n on
From(text, n) == SubSeq(text, n, Len(text))

\* str.strip
Strip(text) ==
  LET keep == {i \in 1..Len(text) : ~IsSpaceCh(text[i])}
  IN IF keep = {} THEN <<>>
     ELSE SubSeq(text, CHOOSE i \in keep : \A j \in keep : i <= j,
                       CHOOSE i \in keep : \A j \in keep : j <= i)

\* sub occurs in text at position i
MatchAt(sub, text, i) ==
  /\ i >= 1
  /\ i + Len(sub) - 1 <= Len(text)
  /\ \A k \in 1..Len(sub) : text[i + k - 1] = sub[k]

\* str.find from position start: the first position of sub, 0 when absent
Find(sub, text, start) ==
  LET hits == {i \in start..Len(text) : MatchAt(sub, text, i)}
  IN IF hits = {} THEN 0 ELSE CHOOSE i \in hits : \A j \in hits : i <= j

\* text.split('\n')[0]
FirstLine(text) ==
  LET nl == Find(<<"\n">>, text, 1)
  IN IF nl = 0 THEN text ELSE SubSeq(text, 1, nl - 1)

\* str.replace(sub, ''): every occurrence, left to right, without overlap
RECURSIVE Remove(_, _)
Remove(sub, text) ==
  LET p == Find(sub, text, 1)
  IN IF p = 0 THEN text
     ELSE SubSeq(text, 1, p - 1) \o Remove(sub, From(text, p + Len(sub)))

\* str.title: a cased character is upper-cased when the character before it
\* is uncased (or it is the first), and lower-cased otherwise
Title(text) ==
  [i \in 1..Len(text) |->
     IF i > 1 /\ IsLetter(text[i - 1]) THEN LowerCh(text[i]) ELSE UpperCh(text[i])]

(***************************************************************************)
(* clean_response                                                          *)
(***************************************************************************)
\* position i lies in a match of \*{2,}|_{2,}: a run of two or more equal
\* emphasis characters (re.sub replaces the leftmost, longest runs)
InEmphasisRun(text, i) ==
  /\ text[i] \in {"*", "_"}
  /\ \/ i > 1 /\ text[i - 1] = text[i]
     \/ i < Len(text) /\ text[i + 1] = text[i]

\* re.sub(r'\*{2,}|_{2,}', '', text)
SubEmphasis(text) ==
  LET idx == SelectSeq([i \in 1..Len(text) |-> i],
                       LAMBDA i : ~InEmphasisRun(text, i))
  IN [k \in 1..Len(idx) |-> text[idx[k]]]

clean_response(text) == Strip(SubEmphasis(text))

(***************************************************************************)
(* The regular expressions of the handlers                                 *)
(***************************************************************************)
\* \b at the gap before position p (1..Len+1): exactly one side is a \w character
WordBoundary(text, p) ==
  LET before == p > 1 /\ IsWordCh(text[p - 1])
      after  == p <= Len(text) /\ IsWordCh(text[p])
  IN before # after

\* the search without its two \b: "yes" anywhere, also inside a longer word
search_yes_anywhere(text) ==
  \E i \in 1..Len(text) : MatchAt(<<"y","e","s">>, Lower(text), i)

\* bool(re.search(r'\byes\b', text, re.IGNORECASE))
search_yes(text) ==
  \E i \in 1..Len(text) :
    /\ MatchAt(<<"y","e","s">>, Lower(text), i)
    /\ WordBoundary(text, i)
    /\ WordBoundary(text, i + 3)

NoMatch == [matched |-> FALSE, group |-> <<>>]

\* re.search(label + r'\s*([^\n]+)', text, re.IGNORECASE), label given in lower
\* case.  The label is found at its leftmost occurrence; \s* is greedy and may
\* run over newlines; when only white space follows the label, \s* gives
\* characters back until [^\n]+ can start on one that is not a newline.
search_label(label, text) ==
  LET p0 == Find(label, Lower(text), 1)
      p  == p0 + Len(label)
      n  == Len(text)
      solid == {i \in p..n : ~IsSpaceCh(text[i])}
      given == {i \in p..n : text[i] # "\n"}
      start == IF solid # {} THEN CHOOSE i \in solid : \A j \in solid : i <= j
               ELSE IF given # {} THEN CHOOSE i \in given : \A j \in given : j <= i
               ELSE 0
  IN IF p0 = 0 \/ start = 0 THEN NoMatch
     ELSE [matched |-> TRUE, group |-> FirstLine(From(text, start))]

CategoryLabel == <<"c","a","t","e","g","o","r","y",":">>

SubcategoryLabel == <<"s","u","b">> \o CategoryLabel

Miscellaneous == <<"M","i","s","c","e","l","l","a","n","e","o","u","s">>

valid_cats ==
  { <<"E","l","e","c","t","r","o","n","i","c","s">>,
    <<"F","u","r","n","i","t","u","r","e">>,
    <<"A","p","p","l","i","a","n","c","e","s">>,
    <<"B","o","o","k","s">>,
    <<"C","l","o","t","h","i","n","g">>,
    Miscellaneous }

\* the category compared with valid_cats as the model wrote it, without .title()
extract_category_exact(text) ==
  LET category_match == search_label(CategoryLabel, text)
      category == Strip(category_match.group)
  IN IF category_match.matched /\ category \in valid_cats
     THEN category ELSE Miscellaneous

\* lines 149, 152-155: the category of the model's answer
extract_category(text) ==
  LET category_match == search_label(CategoryLabel, text)
      category == Title(Strip(category_match.group))
  IN IF category_match.matched /\ category \in valid_cats
     THEN category ELSE Miscellaneous

\* the subcategory returned as the model wrote it, without .title()
extract_subcategory_verbatim(text) ==
  LET subcat_match == search_label(SubcategoryLabel, text)
      subcategory == Strip(subcat_match.group)
  IN IF ~subcat_match.matched THEN Miscellaneous
     ELSE IF Lower(subcategory) \in { <<"o","t","h","e","r","s">>, <<"o","t","h","e","r">> }
     THEN Miscellaneous ELSE subcategory

\* lines 150, 157-160: the subcategory of the model's answer
extract_subcategory(text) ==
  LET subcat_match == search_label(SubcategoryLabel, text)
      subcategory == Title(Strip(subcat_match.group))
  IN IF ~subcat_match.matched THEN Miscellaneous
     ELSE IF Lower(subcategory) \in { <<"o","t","h","e","r","s">>, <<"o","t","h","e","r">> }
     THEN Miscellaneous ELSE subcategory

(***************************************************************************)
(* parse_sales_response                                                    *)
(***************************************************************************)
DescriptionMarker == <<"D","e","s","c","r","i","p","t","i","o","n",":">>

TitleMarker == <<"T","i","t","l","e",":">>

TitleFallbackMax == 50

\* text.split("Description:", 1) has two parts iff the marker occurs; otherwise
\* the unpacking raises ValueError and the except branch returns the fallback
parse_sales_response(text) ==
  LET p == Find(DescriptionMarker, text, 1)
  IN IF p # 0
     THEN [title       |-> Strip(Remove(TitleMarker, SubSeq(text, 1, p - 1))),
           description |-> Strip(From(text, p + Len(DescriptionMarker)))]
     ELSE [title       |-> Strip(Take(FirstLine(text), TitleFallbackMax)),
           description |-> text]

(***************************************************************************)
(* State                                                                   *)
(***************************************************************************)
VARIABLES
  endpoint,       \* the route of the request being served: "generate", "check", "none"
  pc,             \* where the handler is: idle, before an inference call, or done
  request,        \* what Flask hands the handler
  calls,          \* the calls model.generate_content has received in this request
  reuse_text,     \* generate_content: reuse_text; check_reusability: text
  is_reusable,
  title,
  description,
  cat_response,   \* cat_response.text
  category,
  subcategory,
  response,       \* the (status, JSON body) pair the handler returned
  caught,         \* <<where, str(e)>> of the exception an except clause caught
  cl_text,        \* a text under clean_response
  cl_prev,        \* the text clean_response was last applied to
  cl_n            \* how many times clean_response has been applied to it

handler_vars == <<endpoint, pc, request, calls, reuse_text, is_reusable, title,
                  description, cat_response, category, subcategory, response,
                  caught>>

clean_vars == <<cl_text, cl_prev, cl_n>>

vars == <<handler_vars, clean_vars>>

\* 5 * 1024 * 1024, lines 108 and 188
MaxImageBytes == 5 * 1024 * 1024

\* the slice [:200] of lines 128, 170 and 206
ReasonMax == 200

NoResponse == [status |-> 0, body |-> [pending |-> TRUE]]

\* jsonify({'error': ...}), status: the message is kept as its fixed part
\* followed by the interpolated str(e), when there is one
Error(status, message) == [status |-> status, body |-> [error |-> message]]

\* lines 126-129 and 204-207
VerdictBody(reusable, text) ==
  [reusable |-> reusable, reason |-> Take(FirstLine(text), ReasonMax)]

\* the listing with one of its fields forgotten
ListingBody_NoSubcategory(t, d, c, sc, text) ==
  [reusable |-> TRUE, title |-> t, description |-> d, category |-> c,
   reason |-> Take(text, ReasonMax)]

\* lines 164-171
ListingBody(t, d, c, sc, text) ==
  [reusable |-> TRUE, title |-> t, description |-> d, category |-> c,
   subcategory |-> sc, reason |-> Take(text, ReasonMax)]

\* lines 173-175: the top-level handler of generate_content
GC_TopLevel(e) == Error(500, <<"Internal error">>)

\* lines 208-209: the top-level handler of check_reusability
CR_TopLevel(e) == Error(500, <<e>>)

\* lines 104-115: the response that ends the request before any inference
\* call, or NoResponse when the image is accepted
GC_Reject(req) ==
  IF req.files_exc # "none" THEN GC_TopLevel(req.files_exc)
  ELSE IF ~req.has_image THEN Error(400, <<"No image provided">>)
  ELSE IF req.content_length > MaxImageBytes
       THEN Error(400, <<"Image exceeds 5MB size limit">>)
  ELSE IF req.decode_exc # "none" THEN Error(400, <<"Invalid image: ", req.decode_exc>>)
  ELSE NoResponse

\* lines 184-195
CR_Reject(req) ==
  IF req.files_exc # "none" THEN CR_TopLevel(req.files_exc)
  ELSE IF ~req.has_image THEN Error(400, <<"No image">>)
  ELSE IF req.content_length > MaxImageBytes
       THEN Error(400, <<"Image too large (max 5MB)">>)
  ELSE IF req.decode_exc # "none" THEN Error(400, <<"Invalid image: ", req.decode_exc>>)
  ELSE NoResponse

\* lines 114, 173 and 194, 208: the except clause a rejected upload ends in
Caught(req) ==
  IF req.files_exc # "none" THEN <<"top", req.files_exc>>
  ELSE IF req.has_image /\ req.content_length <= MaxImageBytes
          /\ req.decode_exc # "none"
       THEN <<"decode", req.decode_exc>>
  ELSE <<>>

\* the handler going on to the description whatever the verdict
AfterVerdict_Ungated(reusable) == "description"

\* the stage generate_content enters after the verdict, lines 125-131
AfterVerdict(reusable) == IF reusable THEN "description" ELSE "done"

\* the category stage treated like the two before it: its failure ends the request
category_except_abort(e, listing) == Error(500, <<"Category failed: ", e>>)

\* lines 161-162: the except clause of the category stage logs e and falls
\* through to the return of the listing
category_except(e, listing) == listing

Init ==
  /\ endpoint = "none"
  /\ pc = "idle"
  /\ request = [has_image |-> FALSE, content_length |-> 0,
                decode_exc |-> "none", files_exc |-> "none"]
  /\ calls = <<>>
  /\ reuse_text = <<>>
  /\ is_reusable = FALSE
  /\ title = <<>>
  /\ description = <<>>
  /\ cat_response = <<>>
  /\ category = <<>>
  /\ subcategory = <<>>
  /\ response = NoResponse
  /\ caught = <<>>
  /\ cl_text = <<>>
  /\ cl_prev = <<>>
  /\ cl_n = 0

(***************************************************************************)
(* POST /generate-content                                                  *)
(***************************************************************************)
\* lines 102-115
GC_Validate(requests) ==
  /\ pc = "idle"
  /\ \E req \in requests :
       /\ request' = req
       /\ response' = GC_Reject(req)
       /\ caught' = Caught(req)
       /\ pc' = IF GC_Reject(req) = NoResponse THEN "reusability" ELSE "done"
  /\ endpoint' = "generate"
  /\ UNCHANGED <<calls, reuse_text, is_reusable, title, description,
                 cat_response, category, subcategory, clean_vars>>

\* lines 117-129
GC_Reusability(texts, excs) ==
  /\ pc = "reusability"
  /\ endpoint = "generate"
  /\ calls' = Append(calls, "reusability")
  /\ \/ \E e \in excs :
          /\ response' = Error(500, <<"Reusability check failed: ", e>>)
          /\ caught' = <<"reusability", e>>
          /\ pc' = "done"
          /\ UNCHANGED <<reuse_text, is_reusable>>
     \/ \E raw \in texts :
          /\ reuse_text' = clean_response(raw)
          /\ is_reusable' = search_yes(clean_response(raw))
          /\ pc' = AfterVerdict(search_yes(clean_response(raw)))
          /\ response' = IF search_yes(clean_response(raw)) THEN response
                         ELSE [status |-> 200,
                               body |-> VerdictBody(FALSE, clean_response(raw))]
          /\ UNCHANGED caught
  /\ UNCHANGED <<endpoint, request, title, description, cat_response,
                 category, subcategory, clean_vars>>

\* lines 131-137
GC_Description(texts, excs) ==
  /\ pc = "description"
  /\ endpoint = "generate"
  /\ calls' = Append(calls, "description")
  /\ \/ \E e \in excs :
          /\ response' = Error(500, <<"Description failed: ", e>>)
          /\ caught' = <<"description", e>>
          /\ pc' = "done"
          /\ UNCHANGED <<title, description>>
     \/ \E raw \in texts :
          /\ title' = parse_sales_response(clean_response(raw)).title
          /\ description' = parse_sales_response(clean_response(raw)).description
          /\ pc' = "category"
          /\ UNCHANGED <<response, caught>>
  /\ UNCHANGED <<endpoint, request, reuse_text, is_reusable, cat_response,
                 category, subcategory, clean_vars>>

\* lines 139-171
GC_Category(texts, excs) ==
  /\ pc = "category"
  /\ endpoint = "generate"
  /\ calls' = Append(calls, "category")
  /\ \/ \E e \in excs :
          /\ caught' = <<"category", e>>
          /\ category' = Miscellaneous
          /\ subcategory' = Miscellaneous
          /\ response' = category_except(e,
                 [status |-> 200,
                  body |-> ListingBody(title, description, Miscellaneous,
                                       Miscellaneous, reuse_text)])
          /\ UNCHANGED cat_response
     \/ \E raw \in texts :
          /\ cat_response' = raw
          /\ UNCHANGED caught
          /\ category' = extract_category(raw)
          /\ subcategory' = extract_subcategory(raw)
          /\ response' = [status |-> 200,
                          body |-> ListingBody(title, description,
                                               extract_category(raw),
                                               extract_subcategory(raw),
                                               reuse_text)]
  /\ pc' = "done"
  /\ UNCHANGED <<endpoint, request, reuse_text, is_reusable, title,
                 description, clean_vars>>

(***************************************************************************)
(* POST /check-reusability                                                 *)
(***************************************************************************)
\* lines 182-195
CR_Validate(requests) ==
  /\ pc = "idle"
  /\ \E req \in requests :
       /\ request' = req
       /\ response' = CR_Reject(req)
       /\ caught' = Caught(req)
       /\ pc' = IF CR_Reject(req) = NoResponse THEN "reusability" ELSE "done"
  /\ endpoint' = "check"
  /\ UNCHANGED <<calls, reuse_text, is_reusable, title, description,
                 cat_response, category, subcategory, clean_vars>>

\* lines 197-207
CR_Check(texts, excs) ==
  /\ pc = "reusability"
  /\ endpoint = "check"
  /\ calls' = Append(calls, "reusability")
  /\ \/ \E e \in excs :
          /\ response' = Error(500, <<"Check failed: ", e>>)
          /\ caught' = <<"reusability", e>>
          /\ UNCHANGED <<reuse_text, is_reusable>>
     \/ \E raw \in texts :
          /\ reuse_text' = clean_response(raw)
          /\ is_reusable' = search_yes(clean_response(raw))
          /\ response' = [status |-> 200,
                          body |-> VerdictBody(search_yes(clean_response(raw)),
                                               clean_response(raw))]
          /\ UNCHANGED caught
  /\ pc' = "done"
  /\ UNCHANGED <<endpoint, request, title, description, cat_response,
                 category, subcategory, clean_vars>>

\* the handler has returned; its locals are gone and the worker takes the
\* next request
NextRequest ==
  /\ pc = "done"
  /\ endpoint' = "none"
  /\ pc' = "idle"
  /\ request' = [has_image |-> FALSE, content_length |-> 0,
                 decode_exc |-> "none", files_exc |-> "none"]
  /\ calls' = <<>>
  /\ reuse_text' = <<>>
  /\ is_reusable' = FALSE
  /\ title' = <<>>
  /\ description' = <<>>
  /\ cat_response' = <<>>
  /\ category' = <<>>
  /\ subcategory' = <<>>
  /\ response' = NoResponse
  /\ caught' = <<>>
  /\ UNCHANGED clean_vars

\* one application of clean_response to a text
Clean ==
  /\ cl_n < 2
  /\ cl_prev' = cl_text
  /\ cl_text' = clean_response(cl_text)
  /\ cl_n' = cl_n + 1
  /\ UNCHANGED handler_vars

(***************************************************************************)
(* Inputs: what the client sends and what the generative model answers     *)
(***************************************************************************)
\* the str(e) of what model.generate_content raises
ExcMessages == {"429 quota exceeded", "connection reset"}

\* the str(e) of what Image.open raises on bytes that are no image
DecodeMessages == {"cannot identify image file"}

\* the str(e) of what reading request.files raises on a broken upload
FilesMessages == {"400 Bad Request: client disconnected"}

\* the requests that pass the three checks on the upload
GoodRequests ==
  [has_image : {TRUE}, content_length : {MaxImageBytes},
   decode_exc : {"none"}, files_exc : {"none"}]

Requests ==
  GoodRequests
  \cup [has_image : {TRUE}, content_length : {0, MaxImageBytes, MaxImageBytes + 1},
        decode_exc : {"none"} \cup DecodeMessages, files_exc : {"none"}]
  \cup [has_image : BOOLEAN, content_length : {0},
        decode_exc : {"none"}, files_exc : {"none"} \cup FilesMessages]

\* every sequence of at most n elements of S
SeqsUpTo(S, n) == UNION {[1..k -> S] : k \in 0..n}

\* the concatenation of a sequence of texts
RECURSIVE Concat(_)
Concat(parts) == IF parts = <<>> THEN <<>> ELSE Head(parts) \o Concat(Tail(parts))

\* '\n'.join(lines)
RECURSIVE JoinLines(_)
JoinLines(lines) ==
  IF lines = <<>> THEN <<>>
  ELSE IF Len(lines) = 1 THEN lines[1]
  ELSE lines[1] \o <<"\n">> \o JoinLines(Tail(lines))

\* n times the character c
Fill(c, n) == [i \in 1..n |-> c]

\* answers to reusability_prompt
ReuseTexts ==
  { <<"Y","e","s",","," ","i","t"," ","w","o","r","k","s">>,
    <<"*","*","Y","e","s","*","*","\n","L","o","o","k","s"," ","f","i","n","e",".">>,
    <<"N","o",","," ","b","r","o","k","e","n"," ","s","c","r","e","e","n">>,
    <<"y","e","s","t","e","r","d","a","y"," ","t","h","i","s"," ","b","r","o","k","e">> }

\* answers to sales_pitch_prompt
DescTexts ==
  { <<"T","i","t","l","e",":"," ","L","a","m","p","\n","D","e","s","c","r","i","p","t","i","o","n",":"," ","A"," ","n","i","c","e"," ","l","a","m","p">>,
    <<"j","u","s","t"," ","t","e","x","t">>,
    <<"*","*","T","i","t","l","e",":","*","*"," ","D","e","s","k","\n","*","*","D","e","s","c","r","i","p","t","i","o","n",":","*","*"," ","S","o","l","i","d">> }

\* answers to the category prompt
CatTexts ==
  { <<"C","a","t","e","g","o","r","y",":"," ","e","l","e","c","t","r","o","n","i","c","s","\n","S","u","b","c","a","t","e","g","o","r","y",":"," ","o","t","h","e","r","s">>,
    <<"C","a","t","e","g","o","r","y",":"," ","S","p","a","c","e","s","h","i","p">>,
    <<"n","o"," ","i","d","e","a">>,
    <<"S","u","b","c","a","t","e","g","o","r","y",":"," ","B","o","o","k","s">> }

(***************************************************************************)
(* The service: both routes, every way a request can end                   *)
(***************************************************************************)
Next ==
  \/ GC_Validate(Requests)
  \/ GC_Reusability(ReuseTexts, ExcMessages)
  \/ GC_Description(DescTexts, ExcMessages)
  \/ GC_Category(CatTexts, ExcMessages)
  \/ CR_Validate(Requests)
  \/ CR_Check(ReuseTexts, ExcMessages)
  \/ NextRequest

Spec == Init /\ [][Next]_vars

(***************************************************************************)
(* The verdict: both routes over a wide range of reusability answers       *)
(***************************************************************************)
MaxReuseTokens == 2

ReuseTokens ==
  { <<"Y","e","s">>,
    <<"y","E","S">>,
    <<"y","e","s","t","e","r","d","a","y">>,
    <<"n","o">>,
    <<" ">>,
    <<"\n">>,
    <<"_">>,
    <<"*","*">>,
    <<"x">>,
    <<".">> }

\* answers whose first line is around, and far beyond, the limit of the reason
LongReuseTexts ==
  {Concat(<<h, Fill("a", n), t>>) :
     h \in { <<>>,
           <<"Y","e","s"," ">>,
           <<"N","o","\n">> },
     n \in {ReasonMax - 1, ReasonMax, ReasonMax + 1, 500},
     t \in { <<>>,
           <<"\n","y","e","s">> }}

VerdictTexts ==
  {Concat(ts) : ts \in SeqsUpTo(ReuseTokens, MaxReuseTokens)} \cup LongReuseTexts

NextVerdict ==
  \/ GC_Validate(GoodRequests)
  \/ GC_Reusability(VerdictTexts, ExcMessages)
  \/ GC_Description({ <<"T","i","t","l","e",":"," ","L","a","m","p","\n","D","e","s","c","r","i","p","t","i","o","n",":"," ","A"," ","n","i","c","e"," ","l","a","m","p">> }, ExcMessages)
  \/ GC_Category({ <<"C","a","t","e","g","o","r","y",":"," ","F","u","r","n","i","t","u","r","e","\n","S","u","b","c","a","t","e","g","o","r","y",":"," ","O","t","h","e","r","s">> }, ExcMessages)
  \/ CR_Validate(GoodRequests)
  \/ CR_Check(VerdictTexts, ExcMessages)
  \/ NextRequest

SpecVerdict == Init /\ [][NextVerdict]_vars

(***************************************************************************)
(* The category: generate_content over a wide range of category answers    *)
(***************************************************************************)
MaxCatLines == 2

CatLabels ==
  { <<"C","a","t","e","g","o","r","y",":">>,
    <<"c","a","t","e","g","o","r","y",":">>,
    <<"S","u","b","c","a","t","e","g","o","r","y",":">>,
    <<"T","y","p","e",":">> }

CatValues ==
  { <<"E","l","e","c","t","r","o","n","i","c","s">>,
    <<"b","O","O","K","S"," ">>,
    <<"S","p","a","c","e","s","h","i","p">>,
    <<"o","t","h","e","r","s">>,
    <<"O","T","H","E","R">>,
    <<"m","o","b","i","l","e"," ","p","h","o","n","e","s">>,
    <<"M","e","n","'","s"," ","W","e","a","r">> }

\* a labelled value, and a few lines that are not one
CatLines ==
  {Concat(<<l, <<" ">>, v>>) : l \in CatLabels, v \in CatValues}
  \cup { <<>>,
    <<"C","a","t","e","g","o","r","y",":">>,
    <<"S","u","b","c","a","t","e","g","o","r","y",":"," ","\t">>,
    <<"c","a","t","e","g","o","r","y",":","C","l","o","t","h","i","n","g">> }

CategoryTexts == {JoinLines(ls) : ls \in SeqsUpTo(CatLines, MaxCatLines)}

NextCategory ==
  \/ GC_Validate(GoodRequests)
  \/ GC_Reusability({ <<"Y","e","s",","," ","i","t"," ","w","o","r","k","s">> }, ExcMessages)
  \/ GC_Description({ <<"T","i","t","l","e",":"," ","L","a","m","p","\n","D","e","s","c","r","i","p","t","i","o","n",":"," ","A"," ","n","i","c","e"," ","l","a","m","p">> }, ExcMessages)
  \/ GC_Category(CategoryTexts, ExcMessages)
  \/ NextRequest

SpecCategory == Init /\ [][NextCategory]_vars

(***************************************************************************)
(* clean_response on its own, applied twice to every short text            *)
(***************************************************************************)
MaxCleanLen == 4

CleanAlphabet == {"*", "_", " ", "\n", "a"}

InitClean ==
  /\ endpoint = "none"
  /\ pc = "idle"
  /\ request = [has_image |-> FALSE, content_length |-> 0,
                decode_exc |-> "none", files_exc |-> "none"]
  /\ calls = <<>>
  /\ reuse_text = <<>>
  /\ is_reusable = FALSE
  /\ title = <<>>
  /\ description = <<>>
  /\ cat_response = <<>>
  /\ category = <<>>
  /\ subcategory = <<>>
  /\ response = NoResponse
  /\ caught = <<>>
  /\ cl_text \in SeqsUpTo(CleanAlphabet, MaxCleanLen)
  /\ cl_prev = <<>>
  /\ cl_n = 0

NextClean == Clean

SpecClean == InitClean /\ [][NextClean]_vars

(***************************************************************************)
(* Properties                                                              *)
(***************************************************************************)
Range(f) == {f[i] : i \in DOMAIN f}

IsPrefix(a, b) == Len(a) <= Len(b) /\ a = SubSeq(b, 1, Len(a))

StageOrder == <<"reusability", "description", "category">>

\* the handler has returned a success (non-error) response
Succeeded == pc = "done" /\ response.status = 200

\* generate_content has returned the listing of a reusable product
Listed == Succeeded /\ endpoint = "generate" /\ response.body.reusable

\* the exception, if any, was caught at stage
CaughtAt(stage) == caught # <<>> /\ caught[1] = stage

\* the six categories of the taxonomy
Taxonomy ==
  { <<"E","l","e","c","t","r","o","n","i","c","s">>,
    <<"F","u","r","n","i","t","u","r","e">>,
    <<"A","p","p","l","i","a","n","c","e","s">>,
    <<"B","o","o","k","s">>,
    <<"C","l","o","t","h","i","n","g">>,
    <<"M","i","s","c","e","l","l","a","n","e","o","u","s">> }

\* the maximal runs of \w characters of text, as <<first, last>> pairs
WordRuns(text) ==
  LET n == Len(text)
      starts == {i \in 1..n : IsWordCh(text[i]) /\ (i = 1 \/ ~IsWordCh(text[i - 1]))}
      ends   == {j \in 1..n : IsWordCh(text[j]) /\ (j = n \/ ~IsWordCh(text[j + 1]))}
  IN {<<i, CHOOSE j \in ends : j >= i /\ \A k \in ends : k >= i => j <= k>> : i \in starts}

\* some word of text is "yes" in some letter case
HasWordYes(text) ==
  \E r \in WordRuns(text) : Lower(SubSeq(text, r[1], r[2])) = <<"y","e","s">>

\* the positions where the lines of text start
LineStarts(text) == {1} \cup {i + 1 : i \in {k \in 1..Len(text) : text[k] = "\n"}}

\* some line of text starts with label, in any letter case
HasLineLabelled(label, text) ==
  \E i \in LineStarts(text) : MatchAt(label, Lower(text), i)

\* the trimmed value that follows the first label of the category answer
ValueAfter(label) == Strip(search_label(label, cat_response).group)

\* r is v with every letter that starts a run of letters in upper case, every
\* other letter in lower case, and nothing else changed
IsTitleCaseOf(r, v) ==
  /\ Len(r) = Len(v)
  /\ Lower(r) = Lower(v)
  /\ \A i \in 1..Len(r) :
       IsLetter(r[i]) => (IsUpperCh(r[i]) <=> (i = 1 \/ ~IsLetter(r[i - 1])))

Others == { <<"o","t","h","e","r">>,
          <<"o","t","h","e","r","s">> }

\* C1: a successful response of POST /generate-content has exactly the fields
\* reusable and reason when reusable is false, and exactly reusable, title,
\* description, category, subcategory and reason when reusable is true.
C1_ResponseShape ==
  (Succeeded /\ endpoint = "generate") =>
    /\ "reusable" \in DOMAIN response.body
    /\ DOMAIN response.body =
         IF response.body.reusable
         THEN {"reusable", "title", "description", "category", "subcategory", "reason"}
         ELSE {"reusable", "reason"}

C1_Witness ==
  /\ Listed
  /\ DOMAIN response.body =
       {"reusable", "title", "description", "category", "subcategory", "reason"}

\* C2: within one request the inference calls are issued in the order
\* reusability, description, category; the description call only after a
\* reusability call that succeeded with a reusable verdict, the category call
\* only after a description call that succeeded; none when the upload is
\* rejected.
C2_CallOrder ==
  /\ IsPrefix(calls, StageOrder)
  /\ (endpoint = "generate" /\ "description" \in Range(calls)) =>
        is_reusable /\ ~CaughtAt("reusability")
  /\ CaughtAt("reusability") => calls = <<"reusability">>
  /\ (Succeeded /\ ~response.body.reusable) => calls = <<"reusability">>
  /\ CaughtAt("description") => calls = <<"reusability", "description">>
  /\ response.status = 400 => calls = <<>>
  /\ (pc = "done" /\ "category" \in Range(calls)) => Listed

C2_Witness == pc = "done" /\ calls = StageOrder

\* C3: in POST /generate-content a failed category call yields 200 with
\* category and subcategory "Miscellaneous" and the title and description
\* already computed; a failed reusability or description call yields 500 and
\* an error body.
C3_StageFailures ==
  (endpoint = "generate" /\ pc = "done") =>
    /\ CaughtAt("category") =>
         /\ response.status = 200
         /\ response.body.reusable
         /\ response.body.category = Miscellaneous
         /\ response.body.subcategory = Miscellaneous
         /\ response.body.title = title
         /\ response.body.description = description
    /\ (CaughtAt("reusability") \/ CaughtAt("description")) =>
         /\ response.status = 500
         /\ DOMAIN response.body = {"error"}

C3_Witness ==
  /\ endpoint = "generate"
  /\ pc = "done"
  /\ CaughtAt("category")
  /\ response.status = 200
  /\ response.body.title # <<>>

\* C4: the category of a listing is always one of the six of the taxonomy; the
\* category value the answer gives (the trimmed text after its first
\* "Category:" label) is returned as the taxonomy member it equals up to
\* letter case, and as "Miscellaneous" when it equals none.
C4_CategoryInTaxonomy ==
  Listed =>
    /\ response.body.category \in Taxonomy
    /\ (~CaughtAt("category") /\ search_label(CategoryLabel, cat_response).matched) =>
         LET v == ValueAfter(CategoryLabel)
         IN /\ \A m \in Taxonomy : Lower(v) = Lower(m) => response.body.category = m
            /\ (\A m \in Taxonomy : Lower(v) # Lower(m))
                 => response.body.category = Miscellaneous

C4_Witness ==
  /\ Listed
  /\ ValueAfter(CategoryLabel) = <<"b","O","O","K","S">>
  /\ response.body.category = <<"B","o","o","k","s">>

\* C5: on both routes the verdict is true iff the cleaned reusability answer
\* contains "yes", in any letter case, as a whole word.
C5_VerdictIsWholeWordYes ==
  /\ Succeeded => response.body.reusable = HasWordYes(reuse_text)
  /\ pc \in {"description", "category"} => (is_reusable /\ HasWordYes(reuse_text))

C5_Witness ==
  /\ Succeeded
  /\ endpoint = "check"
  /\ ~response.body.reusable
  /\ Find(<<"y","e","s">>, Lower(reuse_text), 1) # 0

\* C6: every reason is the first line of the cleaned reusability answer cut
\* to 200 characters; it holds no newline and at most 200 characters.
C6_ReasonIsFirstLine ==
  Succeeded =>
    /\ response.body.reason = Take(FirstLine(reuse_text), ReasonMax)
    /\ "\n" \notin Range(response.body.reason)
    /\ Len(response.body.reason) <= ReasonMax

\* C7: without a line labelled "Category:" the category is "Miscellaneous",
\* whatever a "Subcategory:" line says; without a line labelled "Subcategory:"
\* the subcategory is "Miscellaneous".
C7_LabelsIndependent ==
  (Listed /\ ~CaughtAt("category")) =>
    /\ ~HasLineLabelled(CategoryLabel, cat_response)
         => response.body.category = Miscellaneous
    /\ ~HasLineLabelled(SubcategoryLabel, cat_response)
         => response.body.subcategory = Miscellaneous

\* C8 as stated: the subcategory value equal to "other" or "others" in any
\* letter case is returned as "Miscellaneous", any other value verbatim.
C8_SubcategoryVerbatim ==
  (Listed /\ ~CaughtAt("category")
     /\ search_label(SubcategoryLabel, cat_response).matched) =>
    LET v == ValueAfter(SubcategoryLabel)
    IN response.body.subcategory =
         IF Lower(v) \in Others THEN Miscellaneous ELSE v

\* C8 as amended: the subcategory value equal to "other" or "others" in any
\* letter case is returned as "Miscellaneous", any other value in title case:
\* each letter that starts a run of letters in upper case, each other letter in
\* lower case, every other character unchanged.
C8_SubcategoryTitleCased ==
  (Listed /\ ~CaughtAt("category")
     /\ search_label(SubcategoryLabel, cat_response).matched) =>
    LET v == ValueAfter(SubcategoryLabel)
    IN IF Lower(v) \in Others
       THEN response.body.subcategory = Miscellaneous
       ELSE IsTitleCaseOf(response.body.subcategory, v)

C8_Witness ==
  /\ Listed
  /\ ValueAfter(SubcategoryLabel) = <<"M","e","n","'","s"," ","W","e","a","r">>
  /\ response.body.subcategory = <<"M","e","n","'","S"," ","W","e","a","r">>

\* C9: on both routes the response of the top-level handler is a 500 whose
\* body does not carry the message of the exception.
C9_TopLevelGeneric ==
  CaughtAt("top") =>
    /\ response.status = 500
    /\ caught[2] \notin Range(response.body.error)

\* C10: cleaning a cleaned text changes nothing, and a cleaned text holds no
\* run of two or more "*" or "_" and no white space at either end.
C10_CleanIdempotent ==
  /\ cl_n = 2 => cl_text = cl_prev
  /\ cl_n >= 1 =>
       /\ \A i \in 1..Len(cl_text) : ~InEmphasisRun(cl_text, i)
       /\ cl_text = Strip(cl_text)

====
